---------------------------- MODULE Spec2Model ----------------------------
(***************************************************************************)
(* Model of openquake.hazardlib.calc.filters: the source-site filter       *)
(* SourceFilter (construction, get_affected_box, the generator __call__,   *)
(* pickling through __getstate__), the IntegrationDistance table and the   *)
(* error-enriching context manager.                                        *)
(*                                                                         *)
(* Spec runs the generator of SourceFilter.__call__; SpecBox calls         *)
(* get_affected_box and get_rectangle on every engine; SpecDist calls the  *)
(* methods of an IntegrationDistance instance (lookups with a magnitude,   *)
(* get_closest), filter_sites_by_distance_to_rupture and the engine built  *)
(* on that instance.                                                       *)
(*                                                                         *)
(* Lengths are integers: longitudes and latitudes in degrees, distances in *)
(* km.  A site collection is a record holding the ascending site ids and   *)
(* the number of the complete collection it was filtered from.             *)
(***************************************************************************)
EXTENDS Integers, Sequences, FiniteSets, TLC

VARIABLES
    rtree,        \* whether the rtree module could be imported (line 67-70)
    sf,           \* the SourceFilter instance (its attributes)
    sender,       \* the instance that was pickled, once one has been
    transmitted,  \* whether sf is a copy received after pickling
    sources,      \* the iterable given to __call__, as a sequence of sources
    sites,        \* the sites argument given to __call__ (None when omitted)
    pc,           \* position of the generator returned by __call__
    pos,          \* how many sources the generator has drawn from the input
    out,          \* the pairs delivered to the consumer so far
    nsites,       \* the .nsites attribute of every source object
    err,          \* the exception that left the generator, if any
    log,          \* the outcome of every loop iteration so far
    calls,        \* the calls made to filter_sites_by_distance_to_source in
                  \* every loop iteration so far
    py3,          \* whether the interpreter is Python 3 (zip is an iterator)
    maxdist_obj,  \* the IntegrationDistance instance (dic and magdist)
    cache,        \* its lazily created attribute interp, and which of the
                  \* zip iterators held in magdist have been consumed
    last,         \* the last direct method call: its arguments and result
    other         \* a second generator returned by __call__ of the same
                  \* instance, for another part of a source list

vars == <<rtree, sf, sender, transmitted, sources, sites, pc, pos, out,
          nsites, err, log, calls, py3, maxdist_obj, cache, last, other>>

\* the variables of the generator returned by SourceFilter.__call__
genvars == <<sources, sites, pc, pos, out, nsites, err, log, calls>>

\* the variables of the IntegrationDistance instance and of direct calls
distvars == <<py3, maxdist_obj, cache, last>>

-----------------------------------------------------------------------------
(* Bounds of the model *)

MaxSources == 2

-----------------------------------------------------------------------------
(* Python values *)

None == [kind |-> "None"]

NoError == [etype |-> "", msg |-> <<>>]

Error(etype, msg) == [etype |-> etype, msg |-> msg]

Ok(v) == [raised |-> FALSE, val |-> v, err |-> NoError]

Raise(e) == [raised |-> TRUE, val |-> None, err |-> e]

Unset == -1   \* a source object that has no .nsites attribute yet

-----------------------------------------------------------------------------
(* Site collections (openquake.hazardlib.site) *)

Site(lon, lat, depth) == [lon |-> lon, lat |-> lat, depth |-> depth]

\* The complete collections of the model; the site with id s of collection k
\* is Complete[k][s + 1].
Complete ==
    << << Site(0, 0, 0), Site(1, 0, 0), Site(10, 0, 0) >>,
       << Site(-179, 0, 0), Site(178, 0, 0) >>,
       << Site(0, 0, 0), Site(1, 0, 1) >> >>

SiteCollection(k) ==
    [kind |-> "sites", sids |-> [i \in 1..Len(Complete[k]) |-> i - 1],
     complete |-> k]

FilteredSiteCollection(sids, complete) ==
    [kind |-> "sites", sids |-> sids, complete |-> complete]

SiteOf(col, sid) == Complete[col.complete][sid + 1]

SidSet(col) == {col.sids[i] : i \in 1..Len(col.sids)}

at_sea_level(col) == \A s \in SidSet(col) : SiteOf(col, s).depth = 0

RECURSIVE SortedSeq(_)
\* sorted(iterable of integers): the ascending list
SortedSeq(S) ==
    IF S = {} THEN <<>>
    ELSE LET m == CHOOSE x \in S : \A y \in S : x <= y
         IN  <<m>> \o SortedSeq(S \ {m})

\* sites.filter(mask): the sites selected by the mask, None when there is none
FilterSites(col, keep) ==
    IF keep = {} THEN None
    ELSE FilteredSiteCollection(SortedSeq(keep), col.complete)

-----------------------------------------------------------------------------
(* Longitudes (openquake.hazardlib.geo.utils) *)

Abs(x) == IF x < 0 THEN -x ELSE x

Min(S) == CHOOSE x \in S : \A y \in S : x <= y

Max(S) == CHOOSE x \in S : \A y \in S : x >= y

\* a longitude brought back into (-180, 180]
WrapLon(lon) ==
    IF lon > 180 THEN lon - 360 ELSE IF lon <= -180 THEN lon + 360 ELSE lon

cross_idl(lon1, lon2) == lon1 * lon2 < 0 /\ Abs(lon1 - lon2) > 180

\* fix_lons_idl(lons): (fixed longitudes by site id, idl flag)
fix_lons_idl(col) ==
    LET lons == {SiteOf(col, s).lon : s \in SidSet(col)}
        idl  == cross_idl(Min(lons), Max(lons))
    IN  [idl |-> idl,
         lons |-> [s \in SidSet(col) |->
                     LET l == SiteOf(col, s).lon
                     IN  IF idl /\ l < 0 THEN l + 360 ELSE l]]

-----------------------------------------------------------------------------
(* Seismic sources (openquake.hazardlib.source.base) *)

Source(source_id, trt, lon, lat, fail) ==
    [source_id |-> source_id, tectonic_region_type |-> trt,
     lon |-> lon, lat |-> lat, fail |-> fail, empty |-> FALSE]

\* A source whose filter_sites_by_distance_to_source returns a collection
\* of no sites, where the sources of the library return None
SourceReturningEmpty(source_id, trt, lon, lat) ==
    [source_id |-> source_id, tectonic_region_type |-> trt,
     lon |-> lon, lat |-> lat, fail |-> NoError, empty |-> TRUE]

\* The source objects of the model.  fail is the error that the geometric
\* procedures of the source raise (NoError: they succeed).
Sources ==
    << Source("A", "Active", 0, 0, NoError),
       Source("B", "Stable", 5, 5, NoError),
       Source("C", "Active", 179, 0, NoError),
       Source("D", "Active", 1, 1, NoError),
       Source("E", "Active", 0, 0,
              Error("ValueError", <<"invalid geometry">>)),
       Source("F", "Stable", 1, 0,
              Error("ZeroDivisionError", <<"float division by zero">>)),
       SourceReturningEmpty("G", "Active", 90, 60) >>

SourceIds == 1..Len(Sources)

Box(min_lon, min_lat, max_lon, max_lat) ==
    [kind |-> "box", min_lon |-> min_lon, min_lat |-> min_lat,
     max_lon |-> max_lon, max_lat |-> max_lat]

\* src.get_bounding_box(maxdist): the box of the source enlarged by maxdist
\* km, longitudes in (-180, 180]
get_bounding_box(src, maxdist) ==
    IF src.fail # NoError THEN Raise(src.fail)
    ELSE LET d == maxdist \div 111
         IN  Ok(Box(WrapLon(src.lon - d), src.lat - d,
                    WrapLon(src.lon + d), src.lat + d))

\* whether the site is within maxdist km of the source
WithinDistance(src, site, maxdist) ==
    LET a    == Abs(src.lon - site.lon)
        dlon == IF a > 180 THEN 360 - a ELSE a
        dlat == Abs(src.lat - site.lat)
    IN  111 * 111 * (dlon * dlon + dlat * dlat) <= maxdist * maxdist

\* src.filter_sites_by_distance_to_source(maxdist, sites)
filter_sites_by_distance_to_source(src, maxdist, col) ==
    IF src.fail # NoError THEN Raise(src.fail)
    ELSE IF /\ src.empty
            /\ \A s \in SidSet(col) :
                  ~WithinDistance(src, SiteOf(col, s), maxdist)
    THEN Ok(FilteredSiteCollection(<<>>, col.complete))
    ELSE Ok(FilterSites(col, {s \in SidSet(col) :
                                WithinDistance(src, SiteOf(col, s), maxdist)}))

-----------------------------------------------------------------------------
(* context, getdefault, IntegrationDistance *)

\* a context that raises a generic exception with the enriched message
contextGenericError(src, r) ==
    IF r.raised
    THEN Raise(Error("Exception",
                     <<"An error occurred with source id=", src.source_id,
                       ". Error: ">> \o r.err.msg))
    ELSE r

\* with context(src): the outcome r of the body, enriched when it raised
context(src, r) ==
    IF r.raised
    THEN Raise(Error(r.err.etype,
                     <<"An error occurred with source id=", src.source_id,
                       ". Error: ">> \o r.err.msg))
    ELSE r

\* a getdefault that answers 0.0 for a key it cannot resolve
getdefaultZero(dic_with_default, key) ==
    IF key \in DOMAIN dic_with_default THEN Ok(dic_with_default[key])
    ELSE IF "default" \in DOMAIN dic_with_default
         THEN Ok(dic_with_default["default"])
         ELSE Ok([kind |-> "float", v |-> 0, pairs |-> <<>>])

\* getdefault(dic_with_default, key)
getdefault(dic_with_default, key) ==
    IF key \in DOMAIN dic_with_default THEN Ok(dic_with_default[key])
    ELSE IF "default" \in DOMAIN dic_with_default
         THEN Ok(dic_with_default["default"])
         ELSE Raise(Error("KeyError", <<"'default'">>))

\* The values of a distance dictionary: a number or a list of pairs
\* (magnitude, distance)
IntValue(v) == [kind |-> "int", v |-> v, pairs |-> <<>>]

FloatValue(v) == [kind |-> "float", v |-> v, pairs |-> <<>>]

ListValue(pairs) == [kind |-> "list", v |-> 0, pairs |-> pairs]

\* tuple comparison p <= q of two pairs
PairLeq(p, q) == p[1] < q[1] \/ (p[1] = q[1] /\ p[2] <= q[2])

RECURSIVE SortPairs(_)
\* value.sort() on a list of pairs
SortPairs(ps) ==
    IF Len(ps) = 0 THEN <<>>
    ELSE LET i == CHOOSE i \in 1..Len(ps) :
                    /\ \A j \in 1..Len(ps) : PairLeq(ps[i], ps[j])
                    /\ \A j \in 1..(i - 1) : ps[j] # ps[i]
         IN  <<ps[i]>> \o SortPairs([j \in 1..(Len(ps) - 1) |->
                                       IF j < i THEN ps[j] ELSE ps[j + 1]])

\* zip(*value): (magnitudes, distances)
Unzip(ps) ==
    << [i \in 1..Len(ps) |-> ps[i][1]], [i \in 1..Len(ps) |-> ps[i][2]] >>

\* a plain Python dict with the given items
Dict(items) == [kind |-> "dict", items |-> items]

\* a constructor that keeps the lists in the order supplied
IntegrationDistanceUnsorted(dic) ==
    [kind |-> "IntegrationDistance",
     dic |-> [trt \in DOMAIN dic |->
                IF dic[trt].kind = "list"
                THEN ListValue(dic[trt].pairs)
                ELSE FloatValue(dic[trt].v)],
     magdist |-> [trt \in {t \in DOMAIN dic : dic[t].kind = "list"} |->
                    Unzip(dic[trt].pairs)]]

\* IntegrationDistance.__init__
IntegrationDistance(dic) ==
    [kind |-> "IntegrationDistance",
     dic |-> [trt \in DOMAIN dic |->
                IF dic[trt].kind = "list"
                THEN ListValue(SortPairs(dic[trt].pairs))
                ELSE FloatValue(dic[trt].v)],
     magdist |-> [trt \in {t \in DOMAIN dic : dic[t].kind = "list"} |->
                    Unzip(SortPairs(dic[trt].pairs))]]

\* IntegrationDistance.__call__(trt) with the magnitude omitted, which is
\* also __getitem__(trt)
getitem(idist, trt) ==
    LET value == getdefault(idist.dic, trt)
    IN  IF value.raised THEN value
        ELSE IF value.val.kind = "float" THEN Ok(value.val.v)
        ELSE IF Len(value.val.pairs) = 0
             THEN Raise(Error("IndexError", <<"list index out of range">>))
             ELSE Ok(value.val.pairs[Len(value.val.pairs)][2])

\* The instance before any lookup with a magnitude: it has no attribute
\* interp, and no zip iterator of magdist has been consumed
NoCache == [has_interp |-> FALSE, interp |-> [t \in {} |-> <<>>], used |-> {}]

\* no second generator has been created
NoGenerator ==
    [pc |-> "idle", whole |-> <<>>, sources |-> <<>>, pos |-> 0,
     out |-> <<>>, err |-> NoError]

\* no direct method call has been made yet
NoCall == [op |-> "none"]

\* len(integration_distance)
DistLen(idist) == Cardinality(DOMAIN idist.dic)

\* the truth value of a dict or of an IntegrationDistance: it is not empty
Truthy(d) ==
    IF d.kind = "dict" THEN DOMAIN d.items # {} ELSE DistLen(d) # 0

\* The distance dictionaries of the model
EmptyDict == [trt \in {} |-> IntValue(0)]

Dicts ==
    { EmptyDict,
      [trt \in {"default"} |-> IntValue(111)],
      [trt \in {"Active"} |-> ListValue(<< <<7, 222>>, <<5, 111>> >>)],
      [trt \in {"Active", "default"} |->
         IF trt = "Active" THEN FloatValue(111) ELSE IntValue(222)] }

-----------------------------------------------------------------------------
(* SourceFilter: construction, the index, get_affected_box *)

\* rtree.index.Index over the entries (sid, (lon, lat, lon, lat), None)
BuildIndex(col, lons) ==
    {[sid |-> s, lon |-> lons[s], lat |-> SiteOf(col, s).lat] :
        s \in SidSet(col)}

\* index.intersection(box): the ids of the entries the box intersects
intersection(index, box) ==
    IF box.kind = "None"
    THEN Raise(Error("TypeError", <<"Bounds must be a sequence">>))
    ELSE IF box.min_lon > box.max_lon \/ box.min_lat > box.max_lat
    THEN Raise(Error("RTreeError",
               <<"Coordinates must not have minimums more than maximums">>))
    ELSE Ok({e.sid : e \in {x \in index :
                /\ box.min_lon <= x.lon /\ x.lon <= box.max_lon
                /\ box.min_lat <= x.lat /\ x.lat <= box.max_lat}})

\* a constructor that builds the index whatever the depths of the sites
SourceFilterAnyDepth(sitecol, integration_distance, use_rtree, have_rtree) ==
    LET idist == IF integration_distance.kind = "dict"
                 THEN IntegrationDistance(integration_distance.items)
                 ELSE integration_distance
        use   == /\ use_rtree
                 /\ have_rtree
                 /\ Truthy(integration_distance)
                 /\ sitecol.kind # "None"
        fixed == fix_lons_idl(sitecol)
    IN  [integration_distance |-> idist,
         sitecol   |-> sitecol,
         use_rtree |-> use,
         has_index |-> use,
         idl       |-> IF use THEN fixed.idl ELSE FALSE,
         index     |-> IF use THEN BuildIndex(sitecol, fixed.lons) ELSE {}]

\* SourceFilter.__init__(sitecol, integration_distance, use_rtree) in a
\* process where the rtree module is available or not
SourceFilter(sitecol, integration_distance, use_rtree, have_rtree) ==
    LET idist == IF integration_distance.kind = "dict"
                 THEN IntegrationDistance(integration_distance.items)
                 ELSE integration_distance
        use   == /\ use_rtree
                 /\ have_rtree
                 /\ Truthy(integration_distance)
                 /\ sitecol.kind # "None"
                 /\ at_sea_level(sitecol)
        fixed == fix_lons_idl(sitecol)
    IN  [integration_distance |-> idist,
         sitecol   |-> sitecol,
         use_rtree |-> use,
         has_index |-> use,
         idl       |-> IF use THEN fixed.idl ELSE FALSE,
         index     |-> IF use THEN BuildIndex(sitecol, fixed.lons) ELSE {}]

\* a get_affected_box that never remaps the longitudes
get_affected_boxNoRemap(self, src) ==
    LET maxdist == getitem(self.integration_distance,
                           src.tectonic_region_type)
        bb      == get_bounding_box(src, maxdist.val)
    IN  IF maxdist.raised THEN maxdist
        ELSE IF bb.raised THEN bb
        ELSE IF ~self.has_index
        THEN Raise(Error("AttributeError",
                   <<"'SourceFilter' object has no attribute 'idl'">>))
        ELSE bb

\* SourceFilter.get_affected_box(src)
get_affected_box(self, src) ==
    LET maxdist == getitem(self.integration_distance,
                           src.tectonic_region_type)
        bb      == get_bounding_box(src, maxdist.val)
        b       == bb.val
    IN  IF maxdist.raised THEN maxdist
        ELSE IF bb.raised THEN bb
        ELSE IF ~self.has_index
        THEN Raise(Error("AttributeError",
                   <<"'SourceFilter' object has no attribute 'idl'">>))
        ELSE IF self.idl
        THEN IF b.min_lon < 0 /\ b.max_lon > 0
             THEN Ok(Box(b.max_lon, b.min_lat, b.min_lon + 360, b.max_lat))
             ELSE IF b.min_lon < 0 /\ b.max_lon < 0
             THEN Ok(Box(b.min_lon + 360, b.min_lat, b.max_lon + 360,
                         b.max_lat))
             ELSE IF b.min_lon > 0 /\ b.max_lon > 0
             THEN Ok(Box(b.min_lon, b.min_lat, b.max_lon, b.max_lat))
             ELSE IF b.min_lon > 0 /\ b.max_lon < 0
             THEN Ok(Box(b.max_lon + 360, b.min_lat, b.min_lon, b.max_lat))
             ELSE Ok(None)
        ELSE Ok(Box(b.min_lon, b.min_lat, b.max_lon, b.max_lat))

\* a state that keeps the use_rtree flag of the instance
getstateKeepsFlag(self) ==
    [integration_distance |-> self.integration_distance,
     sitecol |-> self.sitecol, use_rtree |-> self.use_rtree]

\* a state that loses the site collection
getstateNoSitecol(self) ==
    [integration_distance |-> self.integration_distance,
     sitecol |-> None, use_rtree |-> FALSE]

\* SourceFilter.__getstate__
getstate(self) ==
    [integration_distance |-> self.integration_distance,
     sitecol |-> self.sitecol, use_rtree |-> FALSE]

\* The instance rebuilt from a pickled state: its attributes are the entries
\* of the state, so it has neither .idl nor .index
Unpickle(state) ==
    [integration_distance |-> state.integration_distance,
     sitecol   |-> state.sitecol,
     use_rtree |-> state.use_rtree,
     has_index |-> FALSE,
     idl       |-> FALSE,
     index     |-> {}]

-----------------------------------------------------------------------------
(* SourceFilter.__call__: one iteration of its loops *)

Outcome(kind, col, n, e, cs) ==
    [kind |-> kind, sites |-> col, nsites |-> n, err |-> e, calls |-> cs]

Yield(col, n, cs) == Outcome("yield", col, n, NoError, cs)

\* A skip that records a count of 0 on the source
SkipCounted(cs) == Outcome("skip", None, 0, NoError, cs)

Skip(cs) == Outcome("skip", None, Unset, NoError, cs)

Raised(e, cs) == Outcome("raise", None, Unset, e, cs)

\* the local variable sites after lines 327-328
LocalSites(self, sites_arg) ==
    IF sites_arg.kind = "None" THEN self.sitecol ELSE sites_arg

\* Rtree filtering that yields without looking at the number of ids found
RtreeFilteringNoLenCheck(self, src, lsites) ==
    LET box  == get_affected_box(self, src)
        hits == intersection(self.index, box.val)
        sids == SortedSeq(hits.val)
    IN  IF box.raised THEN Raised(box.err, <<>>)
        ELSE IF hits.raised THEN Raised(hits.err, <<>>)
        ELSE Yield(FilteredSiteCollection(sids, lsites.complete),
                   Len(sids), <<>>)

\* Rtree filtering that hands sites itself, not sites.complete, to the
\* subset: 0, which numbers no complete collection, stands for a filtered
\* view used as the complete reference
RtreeFilteringSitesAsComplete(self, src, lsites) ==
    LET box  == get_affected_box(self, src)
        hits == intersection(self.index, box.val)
        sids == SortedSeq(hits.val)
        ref  == IF lsites = SiteCollection(lsites.complete)
                THEN lsites.complete ELSE 0
    IN  IF box.raised THEN Raised(box.err, <<>>)
        ELSE IF hits.raised THEN Raised(hits.err, <<>>)
        ELSE IF Len(sids) # 0
        THEN Yield(FilteredSiteCollection(sids, ref), Len(sids), <<>>)
        ELSE Skip(<<>>)

\* lines 335-339: Rtree filtering
RtreeFiltering(self, src, lsites) ==
    LET box  == get_affected_box(self, src)
        hits == intersection(self.index, box.val)
        sids == SortedSeq(hits.val)
    IN  IF box.raised THEN Raised(box.err, <<>>)
        ELSE IF hits.raised THEN Raised(hits.err, <<>>)
        ELSE IF Len(sids) # 0
        THEN Yield(FilteredSiteCollection(sids, lsites.complete),
                   Len(sids), <<>>)
        ELSE Skip(<<>>)

\* normal filtering with the distance lookup inside the with block
NormalFilteringWideContext(self, src, lsites) ==
    LET maxdist == context(src, getitem(self.integration_distance,
                                        src.tectonic_region_type))
        call    == [source_id |-> src.source_id, maxdist |-> maxdist.val,
                    sites |-> lsites]
        s_sites == context(src, filter_sites_by_distance_to_source(
                                    src, maxdist.val, lsites))
    IN  IF maxdist.raised THEN Raised(maxdist.err, <<>>)
        ELSE IF s_sites.raised THEN Raised(s_sites.err, <<call>>)
        ELSE IF s_sites.val.kind # "None"
        THEN Yield(s_sites.val, Len(s_sites.val.sids), <<call>>)
        ELSE Skip(<<call>>)

\* normal filtering that filters the engine's own collection, whatever
\* sites the caller passed
NormalFilteringOwnSitecol(self, src, lsites) ==
    LET maxdist == getitem(self.integration_distance,
                           src.tectonic_region_type)
        call    == [source_id |-> src.source_id, maxdist |-> maxdist.val,
                    sites |-> self.sitecol]
        s_sites == context(src, filter_sites_by_distance_to_source(
                                    src, maxdist.val, self.sitecol))
    IN  IF maxdist.raised THEN Raised(maxdist.err, <<>>)
        ELSE IF s_sites.raised THEN Raised(s_sites.err, <<call>>)
        ELSE IF s_sites.val.kind # "None"
        THEN Yield(s_sites.val, Len(s_sites.val.sids), <<call>>)
        ELSE Skip(<<call>>)

\* lines 343-349: normal filtering
NormalFiltering(self, src, lsites) ==
    LET maxdist == getitem(self.integration_distance,
                           src.tectonic_region_type)
        call    == [source_id |-> src.source_id, maxdist |-> maxdist.val,
                    sites |-> lsites]
        s_sites == context(src, filter_sites_by_distance_to_source(
                                    src, maxdist.val, lsites))
    IN  IF maxdist.raised THEN Raised(maxdist.err, <<>>)
        ELSE IF s_sites.raised THEN Raised(s_sites.err, <<call>>)
        ELSE IF s_sites.val.kind # "None"
        THEN Yield(s_sites.val, Len(s_sites.val.sids), <<call>>)
        ELSE Skip(<<call>>)

\* a loop body that tests the distance table before the site collection
ProcessSourceTableFirst(self, src, lsites) ==
    IF ~Truthy(self.integration_distance) THEN Yield(lsites, Unset, <<>>)
    ELSE IF self.sitecol.kind = "None"
    THEN Yield(self.sitecol, Unset, <<>>)
    ELSE IF self.use_rtree THEN RtreeFiltering(self, src, lsites)
    ELSE NormalFiltering(self, src, lsites)

\* The body of the loop for one source: what it yields, skips or raises, the
\* value it writes to src.nsites (Unset: no write) and the calls it makes to
\* the source's own filter
ProcessSource(self, src, lsites) ==
    IF self.sitecol.kind = "None" THEN Yield(lsites, Unset, <<>>)
    ELSE IF self.use_rtree THEN RtreeFiltering(self, src, lsites)
    ELSE IF ~Truthy(self.integration_distance)
    THEN Yield(lsites, Unset, <<>>)
    ELSE NormalFiltering(self, src, lsites)

RECURSIVE ListCall(_, _, _)
\* list(self(srcs, sites)): the pairs collected until the generator ends, and
\* the error that ended it, if any
ListCall(self, srcs, sites_arg) ==
    IF Len(srcs) = 0 THEN [pairs |-> <<>>, err |-> NoError]
    ELSE LET o    == ProcessSource(self, Sources[Head(srcs)],
                                   LocalSites(self, sites_arg))
             rest == ListCall(self, Tail(srcs), sites_arg)
         IN  IF o.kind = "raise" THEN [pairs |-> <<>>, err |-> o.err]
             ELSE IF o.kind = "yield"
             THEN [pairs |-> <<[src |-> Head(srcs), sites |-> o.sites]>>
                               \o rest.pairs,
                   err |-> rest.err]
             ELSE rest

-----------------------------------------------------------------------------
(* The state machine *)

SiteCols == {None} \cup {SiteCollection(k) : k \in 1..Len(Complete)}

\* The sites arguments a caller passes: omitted, or a filtered view
SitesArgs(self) ==
    {None, FilteredSiteCollection(<<1>>,
               IF self.sitecol.kind = "None" THEN 1
               ELSE self.sitecol.complete)}

RECURSIVE SeqsUpTo(_, _)
SeqsUpTo(S, n) ==
    IF n = 0 THEN {<<>>}
    ELSE LET shorter == SeqsUpTo(S, n - 1)
         IN  shorter \cup {Append(s, x) : s \in shorter, x \in S}

SourceLists == SeqsUpTo(SourceIds, MaxSources)

Init ==
    /\ rtree \in BOOLEAN
    /\ \E sitecol \in SiteCols, dic \in Dicts, use_rtree \in BOOLEAN :
          sf = SourceFilter(sitecol, Dict(dic), use_rtree, rtree)
    /\ sender = sf
    /\ transmitted = FALSE
    /\ sources = <<>>
    /\ sites = None
    /\ pc = "idle"
    /\ pos = 0
    /\ out = <<>>
    /\ nsites = [s \in SourceIds |-> Unset]
    /\ err = NoError
    /\ log = <<>>
    /\ calls = <<>>
    /\ py3 \in BOOLEAN
    /\ maxdist_obj = sf.integration_distance
    /\ cache = NoCache
    /\ last = NoCall
    /\ other = NoGenerator

\* The instance is pickled and the copy is the one used from now on
Transmit ==
    /\ pc = "idle"
    /\ ~transmitted
    /\ sf' = Unpickle(getstate(sf))
    /\ transmitted' = TRUE
    /\ UNCHANGED <<other,
                   rtree, sender, sources, sites, pc, pos, out, nsites, err,
                   log, calls, distvars>>

\* self(sources, sites): the generator is created, for one of the given
\* source lists and one of the given sites arguments
CallWith(lists, args) ==
    /\ pc = "idle"
    /\ \E srcs \in lists, sites_arg \in args :
          /\ sources' = srcs
          /\ sites' = sites_arg
    /\ pc' = "created"
    /\ UNCHANGED <<other,
                   rtree, sf, sender, transmitted, pos, out, nsites, err,
                   log, calls, distvars>>

Call == CallWith(SourceLists, SitesArgs(sf))

Active == pc \in {"created", "yielded", "running"}

\* a loop that draws the next source before it delivers the pair
AdvanceAhead(p, n) == IF p + 2 <= n THEN p + 2 ELSE p + 1

\* a loop that steps over a source each time it draws one
AdvancePast(p, n) == p + 2

\* for src in sources: the position in the input after one more source has
\* been drawn from an input of n sources
Advance(p, n) == p + 1

\* The generator draws the next source and runs the loop body on it
Iterate ==
    /\ Active
    /\ pos < Len(sources)
    /\ LET s == sources[pos + 1]
           o == ProcessSource(sf, Sources[s], LocalSites(sf, sites))
       IN  /\ pos' = Advance(pos, Len(sources))
           /\ log' = Append(log, o.kind)
           /\ calls' = Append(calls, o.calls)
           /\ nsites' = IF o.nsites = Unset THEN nsites
                        ELSE [nsites EXCEPT ![s] = o.nsites]
           /\ out' = IF o.kind = "yield"
                     THEN Append(out, [src |-> s, sites |-> o.sites,
                                       nsites |-> nsites'[s], idx |-> pos + 1])
                     ELSE out
           /\ err' = o.err
           /\ pc' = IF o.kind = "yield" THEN "yielded"
                    ELSE IF o.kind = "skip" THEN "running" ELSE "raised"
    /\ UNCHANGED <<other,
                   rtree, sf, sender, transmitted, sources, sites, distvars>>

\* The input is exhausted: the generator returns
Exhaust ==
    /\ Active
    /\ pos = Len(sources)
    /\ pc' = "done"
    /\ UNCHANGED <<other,
                   rtree, sf, sender, transmitted, sources, sites, pos, out,
                   nsites, err, log, calls, distvars>>

Next == Transmit \/ Call \/ Iterate \/ Exhaust

Spec == Init /\ [][Next]_vars

-----------------------------------------------------------------------------
(* Notions the properties are stated with *)

Range(s) == {s[i] : i \in 1..Len(s)}

Ascending(s) == \A i, j \in 1..Len(s) : i < j => s[i] < s[j]

Finished == pc \in {"done", "raised"}

\* the pairs delivered so far, as (source, sites)
Pairs == [j \in 1..Len(out) |-> [src |-> out[j].src, sites |-> out[j].sites]]

\* the pair delivered by iteration k, if it delivered one
PairsOf(k) == {j \in 1..Len(out) : out[j].idx = k}

\* the local variable sites of the running generator
lsites == LocalSites(sf, sites)

IndexPath == sf.sitecol.kind # "None" /\ sf.use_rtree

FallbackPath ==
    /\ sf.sitecol.kind # "None"
    /\ ~sf.use_rtree
    /\ DistLen(sf.integration_distance) # 0

PassThrough ==
    \/ sf.sitecol.kind = "None"
    \/ ~sf.use_rtree /\ DistLen(sf.integration_distance) = 0

\* The ids of the sites of the indexed collection that lie inside
\* get_affected_box(src), in the coordinates of the index; none when
\* get_affected_box raises or returns no box
SitesInAffectedBox(self, src) ==
    LET box   == get_affected_box(self, src)
        b     == box.val
        fixed == fix_lons_idl(self.sitecol).lons
    IN  IF box.raised \/ b.kind # "box" THEN {}
        ELSE {s \in SidSet(self.sitecol) :
                /\ b.min_lon <= fixed[s] /\ fixed[s] <= b.max_lon
                /\ b.min_lat <= SiteOf(self.sitecol, s).lat
                /\ SiteOf(self.sitecol, s).lat <= b.max_lat}

-----------------------------------------------------------------------------
(* C1 *)

\* C1: on the index path every processed source yields a pair exactly when
\* at least one site of the indexed collection lies inside its affected box;
\* the pair holds the source, exactly the ids of those sites in ascending
\* order, and the source's nsites at the yield is their number.
C1_IndexPathYields ==
    IndexPath =>
        \A k \in 1..Len(log) :
            LET inside == SitesInAffectedBox(sf, Sources[sources[k]])
            IN  /\ (log[k] = "yield") <=> (inside # {})
                /\ Cardinality(PairsOf(k)) = IF inside # {} THEN 1 ELSE 0
                /\ \A j \in PairsOf(k) :
                      /\ out[j].src = sources[k]
                      /\ SidSet(out[j].sites) = inside
                      /\ Len(out[j].sites.sids) = Cardinality(inside)
                      /\ Ascending(out[j].sites.sids)
                      /\ out[j].nsites = Cardinality(inside)

\* Sites (0,0), (1,0), (10,0) and a source whose box covers the first two:
\* one pair with the sites 0 and 1 and nsites = 2
C1_Witness ==
    /\ IndexPath
    /\ sf.sitecol = SiteCollection(1)
    /\ sources = <<1>>
    /\ pc = "done"
    /\ Len(out) = 1
    /\ out[1].src = 1
    /\ out[1].sites.sids = <<0, 1>>
    /\ out[1].nsites = 2
    /\ nsites[1] = 2

-----------------------------------------------------------------------------
(* C2 *)

\* whether the site lies in the box of the source enlarged by maxdist, a box
\* with min_lon > max_lon being one that spans the antimeridian
InSourceBox(src, site, maxdist) ==
    LET b == get_bounding_box(src, maxdist).val
    IN  /\ b.min_lat <= site.lat /\ site.lat <= b.max_lat
        /\ IF b.min_lon <= b.max_lon
           THEN b.min_lon <= site.lon /\ site.lon <= b.max_lon
           ELSE b.min_lon <= site.lon \/ site.lon <= b.max_lon

\* The source drawn by iteration k has zero sites in range: on the index
\* path get_affected_box returns, no site lies inside what it returns and
\* no site lies in the enlarged box of the source; on the
\* geometric-fallback path the source's own filter returns None
ZeroSitesInRange(k) ==
    LET src     == Sources[sources[k]]
        maxdist == getitem(sf.integration_distance, src.tectonic_region_type)
        s_sites == filter_sites_by_distance_to_source(src, maxdist.val,
                                                      lsites)
    IN  \/ /\ IndexPath
           /\ ~get_affected_box(sf, src).raised
           /\ SitesInAffectedBox(sf, src) = {}
           /\ \A s \in SidSet(sf.sitecol) :
                 ~InSourceBox(src, SiteOf(sf.sitecol, s), maxdist.val)
        \/ /\ FallbackPath
           /\ ~maxdist.raised
           /\ ~s_sites.raised
           /\ s_sites.val.kind = "None"

\* C2: a source with zero sites in range produces no entry in the output
\* and no error, and the sources after it are still processed.
C2_ZeroSiteSourcesSkipped ==
    /\ \A k \in 1..Len(log) :
          ZeroSitesInRange(k) =>
              /\ log[k] = "skip"
              /\ PairsOf(k) = {}
              /\ k = Len(log) => pc \in {"running", "done"} /\ err = NoError
    /\ pc = "done" => Len(log) = Len(sources)

-----------------------------------------------------------------------------
(* C3 *)

\* C3: on the geometric-fallback path every iteration whose distance lookup
\* succeeds calls the source's filter exactly once, with the distance looked
\* up without a magnitude and the caller's sites; a non-null result is
\* yielded with the source and nsites set to its length, a null result skips
\* the source.
C3_FallbackDelegates ==
    FallbackPath =>
        \A k \in 1..Len(log) :
            LET src     == Sources[sources[k]]
                maxdist == getitem(sf.integration_distance,
                                   src.tectonic_region_type)
                res     == filter_sites_by_distance_to_source(
                               src, maxdist.val, lsites)
            IN  ~maxdist.raised =>
                  /\ calls[k] = <<[source_id |-> src.source_id,
                                   maxdist |-> maxdist.val,
                                   sites |-> lsites]>>
                  /\ ~res.raised /\ res.val.kind # "None" =>
                        /\ log[k] = "yield"
                        /\ \E j \in PairsOf(k) :
                              /\ out[j].src = sources[k]
                              /\ out[j].sites = res.val
                              /\ out[j].nsites = Len(res.val.sids)
                  /\ ~res.raised /\ res.val.kind = "None" =>
                        /\ log[k] = "skip"
                        /\ PairsOf(k) = {}

\* A caller that passes its own sites gets a pair on the fallback path, and
\* another source is skipped in the same run
C3_Witness ==
    /\ FallbackPath
    /\ sites.kind # "None"
    /\ \E k \in 1..Len(log) : log[k] = "yield" /\ nsites[sources[k]] = 1
    /\ \E k \in 1..Len(log) : log[k] = "skip"

-----------------------------------------------------------------------------
(* C4 *)

\* C4: when the site collection of the engine is None, or it is not None but
\* the index is not in use and the distance table is empty, every input
\* source is yielded exactly once, in input order, paired with the caller's
\* sites (the engine's own collection when sites is omitted), and no nsites
\* is written.
C4_PassThrough ==
    PassThrough =>
        /\ Len(out) = Len(log)
        /\ err = NoError
        /\ \A k \in 1..Len(out) :
              /\ out[k].idx = k
              /\ out[k].src = sources[k]
              /\ out[k].sites = (IF sites.kind = "None" THEN sf.sitecol
                                 ELSE sites)
        /\ \A s \in SourceIds : nsites[s] = Unset
        /\ pc = "done" => Len(out) = Len(sources)

\* Both cases of C4 end with two pairs: the engine without sites given the
\* caller's sites, and the engine with sites and an empty table
C4_Witness ==
    /\ pc = "done"
    /\ Len(sources) = 2
    /\ Len(out) = 2
    /\ \/ sf.sitecol.kind = "None" /\ sites.kind # "None"
       \/ sf.sitecol.kind # "None" /\ DistLen(sf.integration_distance) = 0

-----------------------------------------------------------------------------
(* C5 *)

\* C5: the sources of the delivered pairs are an in-order subsequence of the
\* input, and when a pair is delivered the generator has drawn no source
\* after the one of the pair.
C5_InOrderNoReadAhead ==
    /\ \A j \in 1..Len(out) :
          /\ out[j].idx \in 1..Len(sources)
          /\ out[j].src = sources[out[j].idx]
    /\ \A i, j \in 1..Len(out) : i < j => out[i].idx < out[j].idx
    /\ pc = "yielded" => pos = out[Len(out)].idx
    /\ pos = Len(log)

\* A pair is delivered for the first of two sources and the second source
\* has not been drawn
C5_Witness ==
    /\ pc = "yielded"
    /\ Len(sources) = 2
    /\ Len(out) = 1
    /\ pos = 1

-----------------------------------------------------------------------------
(* C6 *)

\* C6: the copy received after pickling has use_rtree false and no spatial
\* index, and its site collection and distance table are the sender's,
\* whether or not the sender was index-backed.
C6_ReceivedCopy ==
    transmitted =>
        /\ sf.use_rtree = FALSE
        /\ ~sf.has_index
        /\ sf.index = {}
        /\ sf.sitecol = sender.sitecol
        /\ sf.integration_distance = sender.integration_distance

\* The copy of an index-backed sender has been received
C6_Witness ==
    /\ transmitted
    /\ sender.use_rtree
    /\ sender.index # {}
    /\ sf.index = {}

-----------------------------------------------------------------------------
(* C7 *)

\* the engine constructed directly with the site collection and the distance
\* table of the sender and index usage off
DirectFallback ==
    SourceFilter(sender.sitecol, sender.integration_distance, FALSE, rtree)

\* C7: filtering with the copy received after pickling gives the pairs (and
\* the error, if any) that an engine constructed directly with the same site
\* collection and distance table and index usage off gives.
C7_ReceivedAsDirectFallback ==
    transmitted /\ Finished =>
        LET direct == ListCall(DirectFallback, sources, sites)
        IN  /\ Pairs = direct.pairs
            /\ Range(Pairs) = Range(direct.pairs)
            /\ err = direct.err

\* The copy of an index-backed sender has filtered two sources on the
\* fallback path, yielding one and skipping the other
C7_Witness ==
    /\ transmitted
    /\ sender.use_rtree
    /\ pc = "done"
    /\ Len(sources) = 2
    /\ Len(out) = 1
    /\ calls[1] # <<>>
    /\ calls[2] # <<>>

-----------------------------------------------------------------------------
(* C8 *)

\* the pairs as (source, set of site ids)
IdPairs(pairs) ==
    {[src |-> pairs[j].src, sids |-> SidSet(pairs[j].sites)] :
        j \in 1..Len(pairs)}

\* C8: for the same site collection, distance table and sources the
\* index-backed path and the geometric-fallback path yield the same sources,
\* each with the same set of site ids.
C8_IndexAsFallback ==
    IndexPath /\ Finished =>
        IdPairs(Pairs) =
            IdPairs(ListCall(SourceFilter(sf.sitecol, sf.integration_distance,
                                          FALSE, rtree),
                             sources, sites).pairs)

-----------------------------------------------------------------------------
(* C9 *)

\* C9: on the geometric-fallback path, when the source's own filter raises,
\* the error that leaves the generator has the kind of the original and its
\* message is the original message after a prefix containing the source_id.
C9_ErrorEnriched ==
    FallbackPath =>
        \A k \in 1..Len(log) :
            LET src     == Sources[sources[k]]
                maxdist == getitem(sf.integration_distance,
                                   src.tectonic_region_type)
                res     == filter_sites_by_distance_to_source(
                               src, maxdist.val, lsites)
                n       == Len(err.msg) - Len(res.err.msg)
            IN  ~maxdist.raised /\ res.raised =>
                  /\ log[k] = "raise"
                  /\ k = Len(log)
                  /\ pc = "raised"
                  /\ err.etype = res.err.etype
                  /\ n > 0
                  /\ SubSeq(err.msg, n + 1, Len(err.msg)) = res.err.msg
                  /\ src.source_id \in Range(SubSeq(err.msg, 1, n))

\* The filter of the second source raised a ZeroDivisionError on the
\* fallback path after the first source was yielded
C9_Witness ==
    /\ FallbackPath
    /\ pc = "raised"
    /\ Len(log) = 2
    /\ log[1] = "yield"
    /\ calls[2] # <<>>
    /\ Sources[sources[2]].fail.etype = "ZeroDivisionError"
    /\ err.etype = "ZeroDivisionError"

-----------------------------------------------------------------------------
(* C10 *)

\* C10 as stated: any error raised while a source is processed, on any path,
\* reaches the caller with the identifier of that source in its message.
C10_EveryErrorNamesSource ==
    pc = "raised" => Sources[sources[pos]].source_id \in Range(err.msg)

\* C10 amended: the error carries the identifier of the source exactly when
\* it was raised by the source's own filter on the geometric-fallback path;
\* an error of the distance lookup, of the bounding-box computation or of
\* the index query reaches the caller as it was raised, without identifier.
C10_OnlyFilterErrorsNameSource ==
    pc = "raised" =>
        LET src     == Sources[sources[pos]]
            maxdist == getitem(sf.integration_distance,
                               src.tectonic_region_type)
            bbox    == get_bounding_box(src, maxdist.val)
            hits    == intersection(sf.index, get_affected_box(sf, src).val)
        IN  /\ (src.source_id \in Range(err.msg)) <=>
                   (FallbackPath /\ calls[pos] # <<>>)
            /\ calls[pos] = <<>> =>
                   IF maxdist.raised THEN err = maxdist.err
                   ELSE IF bbox.raised THEN err = bbox.err
                   ELSE IndexPath /\ hits.raised /\ err = hits.err

\* Errors that reach the caller without the identifier: a KeyError of the
\* distance lookup on the fallback path, and an error of the bounding-box
\* computation on the index path
C10_Witness ==
    /\ pc = "raised"
    /\ calls[pos] = <<>>
    /\ \/ FallbackPath /\ err = Error("KeyError", <<"'default'">>)
       \/ IndexPath /\ err = Sources[sources[pos]].fail

-----------------------------------------------------------------------------
(* Direct calls of get_affected_box and get_rectangle *)

\* SourceFilter.get_rectangle(src)
get_rectangle(self, src) ==
    LET box == get_affected_box(self, src)
        b   == box.val
    IN  IF box.raised THEN box
        ELSE IF b.kind = "None"
        THEN Raise(Error("TypeError",
                         <<"'NoneType' object is not iterable">>))
        ELSE Ok(<< <<b.min_lon, b.min_lat>>, b.max_lon - b.min_lon,
                   b.max_lat - b.min_lat >>)

\* The sources given to the direct calls: the sources of the model and
\* point sources on both sides of the Greenwich meridian and of the
\* antimeridian
BoxSources ==
    {Sources[i] : i \in SourceIds} \cup
    {Source("P", "Active", lon, 50, NoError) :
        lon \in {-179, -5, -1, 0, 1, 5, 180}}

\* self.get_affected_box(src), called by a client for one of the given
\* sources
GetAffectedBoxOf(srcs) ==
    /\ \E src \in srcs :
          last' = [op |-> "get_affected_box", src |-> src,
                   res |-> get_affected_box(sf, src)]
    /\ UNCHANGED <<other, rtree, sf, sender, transmitted, genvars, py3,
                   maxdist_obj, cache>>

CallGetAffectedBox == pc = "idle" /\ GetAffectedBoxOf(BoxSources)

\* self.get_rectangle(src), called by a client for one of the given sources
GetRectangleOf(srcs) ==
    /\ \E src \in srcs :
          last' = [op |-> "get_rectangle", src |-> src,
                   res |-> get_rectangle(sf, src)]
    /\ UNCHANGED <<other, rtree, sf, sender, transmitted, genvars, py3,
                   maxdist_obj, cache>>

CallGetRectangle == pc = "idle" /\ GetRectangleOf(BoxSources)

NextBox == Transmit \/ CallGetAffectedBox \/ CallGetRectangle

SpecBox == Init /\ [][NextBox]_vars

\* the direct call recorded in last was made with a source whose region
\* type the table resolves and whose bounding box could be computed
BoxCall(op) ==
    /\ last.op = op
    /\ ~getitem(sf.integration_distance,
                last.src.tectonic_region_type).raised
    /\ last.src.fail = NoError

\* src.get_bounding_box(maxdist) of the source of the last direct call
EnlargedBox ==
    get_bounding_box(last.src,
                     getitem(sf.integration_distance,
                             last.src.tectonic_region_type).val).val

\* the date-line correction is active on the instance
IdlActive == sf.has_index /\ sf.idl

-----------------------------------------------------------------------------
(* C11 *)

\* C11: with the date-line correction active, get_affected_box remaps the
\* enlarged box (min_lon, min_lat, max_lon, max_lat) by the sign of its
\* longitudes: min_lon < 0 < max_lon gives (max_lon, min_lat, min_lon + 360,
\* max_lat); both negative gives both longitudes + 360; both positive gives
\* the box unchanged; min_lon > 0 > max_lon gives (max_lon + 360, min_lat,
\* min_lon, max_lat).  The latitudes are never changed.
C11_RemapByCase ==
    (BoxCall("get_affected_box") /\ IdlActive) =>
       LET b == EnlargedBox
           r == last.res
       IN  /\ (b.min_lon < 0 /\ b.max_lon > 0) =>
                  r = Ok(Box(b.max_lon, b.min_lat, b.min_lon + 360,
                             b.max_lat))
           /\ (b.min_lon < 0 /\ b.max_lon < 0) =>
                  r = Ok(Box(b.min_lon + 360, b.min_lat, b.max_lon + 360,
                             b.max_lat))
           /\ (b.min_lon > 0 /\ b.max_lon > 0) => r = Ok(b)
           /\ (b.min_lon > 0 /\ b.max_lon < 0) =>
                  r = Ok(Box(b.max_lon + 360, b.min_lat, b.min_lon,
                             b.max_lat))

\* a box spanning the antimeridian has been remapped on an instance with
\* the correction active
C11_Witness ==
    /\ BoxCall("get_affected_box")
    /\ IdlActive
    /\ EnlargedBox.min_lon > 0
    /\ EnlargedBox.max_lon < 0
    /\ ~last.res.raised
    /\ last.res.val.kind = "box"
    /\ last.res.val.max_lon = EnlargedBox.min_lon

-----------------------------------------------------------------------------
(* C12 *)

\* C12: on every instance whose table resolves the region type of the
\* source, index-backed or not, get_affected_box(src) returns a box, which
\* is src.get_bounding_box(maxdist) when the date-line correction is not
\* active, and get_rectangle(src) returns ((min_lon, min_lat),
\* max_lon - min_lon, max_lat - min_lat) of that box.
C12_BoxOnEveryInstance ==
    /\ BoxCall("get_affected_box") =>
          /\ ~last.res.raised
          /\ last.res.val.kind = "box"
          /\ ~IdlActive => last.res.val = EnlargedBox
    /\ BoxCall("get_rectangle") =>
          /\ ~last.res.raised
          /\ ~IdlActive =>
                 last.res.val =
                    << <<EnlargedBox.min_lon, EnlargedBox.min_lat>>,
                       EnlargedBox.max_lon - EnlargedBox.min_lon,
                       EnlargedBox.max_lat - EnlargedBox.min_lat >>

-----------------------------------------------------------------------------
(* C13 *)

\* C13: on the index path a source whose enlarged box spans the antimeridian
\* (min_lon > 0 > max_lon, as for min_lon = 170 and max_lon = -170) is
\* filtered as the equivalent box min_lon..max_lon + 360 would be: every
\* site with a longitude and a latitude in that range, such as a site just
\* east of the antimeridian, is retained in the pair of the source.
C13_AntimeridianSiteRetained ==
    IndexPath =>
        \A k \in 1..Len(log) :
            LET src     == Sources[sources[k]]
                maxdist == getitem(sf.integration_distance,
                                   src.tectonic_region_type)
                b       == get_bounding_box(src, maxdist.val).val
            IN  (/\ ~maxdist.raised
                 /\ src.fail = NoError
                 /\ b.min_lon > 0
                 /\ b.max_lon < 0) =>
                    \A s \in SidSet(sf.sitecol) :
                        InSourceBox(src, SiteOf(sf.sitecol, s), maxdist.val)
                        => \E j \in PairsOf(k) : s \in SidSet(out[j].sites)

-----------------------------------------------------------------------------
(* IntegrationDistance.__call__ with a magnitude: the interpolators *)

RECURSIVE Gcd(_, _)
Gcd(a, b) == IF b = 0 THEN a ELSE Gcd(b, a % b)

\* The float n / d (d > 0), kept exact as a fraction in lowest terms
Rat(n, d) ==
    LET g == Gcd(Abs(n), d)
    IN  [num |-> n \div g, den |-> d \div g]

\* a <= b on floats
RatLeq(a, b) == a.num * b.den <= b.num * a.den

\* a magnitude argument: a float, or None when it is omitted
Mag(m) == [kind |-> "float", v |-> m]

\* an interpolator that clamps outside the magnitudes of the table
interp1dClamped(md, x_new) ==
    LET x == md[1]
        y == md[2]
        n == Len(x)
    IN  IF x_new <= x[1] THEN Rat(y[1], 1)
        ELSE IF x_new >= x[n] THEN Rat(y[n], 1)
        ELSE LET hi == Min({i \in 1..n : x[i] >= x_new})
                 lo == hi - 1
             IN  Rat(y[lo] * (x[hi] - x[lo])
                       + (y[hi] - y[lo]) * (x_new - x[lo]),
                     x[hi] - x[lo])

\* interp1d(x, y, bounds_error=False, fill_value='extrapolate')(x_new) for
\* md = (x, y) with x ascending: linear on the segment that holds x_new, on
\* the first segment below x[1] and on the last one above x[n]
interp1d(md, x_new) ==
    LET x   == md[1]
        y   == md[2]
        n   == Len(x)
        ge  == {i \in 1..n : x[i] >= x_new}
        idx == IF ge = {} THEN n ELSE Min(ge)
        hi  == IF idx < 2 THEN 2 ELSE idx
        lo  == hi - 1
    IN  Rat(y[lo] * (x[hi] - x[lo]) + (y[hi] - y[lo]) * (x_new - x[lo]),
            x[hi] - x[lo])

\* IntegrationDistance.__call__(trt, mag) on the instance self whose
\* attribute interp and consumed iterators are c, under Python 3 or not:
\* the result and the new c
call(self, c, p3, trt, mag) ==
    LET value == getdefault(self.dic, trt)
        pairs == value.val.pairs
        key   == IF trt \in DOMAIN self.magdist THEN trt ELSE "default"
        c1    == [c EXCEPT !.has_interp = TRUE]
    IN  IF value.raised THEN [res |-> value, cache |-> c]
        ELSE IF value.val.kind = "float"
        THEN [res |-> Ok(Rat(value.val.v, 1)), cache |-> c]
        ELSE IF mag.kind = "None"
        THEN [res |-> IF Len(pairs) = 0
                      THEN Raise(Error("IndexError",
                                       <<"list index out of range">>))
                      ELSE Ok(Rat(pairs[Len(pairs)][2], 1)),
              cache |-> c]
        ELSE IF trt \in DOMAIN c.interp
        THEN [res |-> Ok(interp1d(c.interp[trt], mag.v)), cache |-> c1]
        ELSE IF p3 /\ key \in c.used
        THEN [res |-> Raise(Error("TypeError",
                  <<"__init__() missing 2 required positional arguments: ",
                    "'x' and 'y'">>)),
              cache |-> c1]
        ELSE [res |-> Ok(interp1d(self.magdist[key], mag.v)),
              cache |-> [has_interp |-> TRUE,
                         interp |-> (trt :> self.magdist[key]) @@ c.interp,
                         used |-> IF p3 THEN c.used \cup {key} ELSE c.used]]

\* collections.Mapping.get(key), inherited by IntegrationDistance:
\* self[key], or None when self[key] raises KeyError
Mapping_get(self, key) ==
    LET r == getitem(self, key)
    IN  IF r.raised /\ r.err.etype = "KeyError" THEN Ok(None) ELSE r

-----------------------------------------------------------------------------
(* Ruptures, get_distances, get_closest, filter_sites_by_distance_to_rupture *)

\* A rupture: its region type, its magnitude and what each distance
\* procedure of its surface and hypocenter returns for the sites 0, 1, 2 of
\* the first complete collection
Rupture(trt, mag, rrup, rx, ry0, rjb, rhypo, repi, rcdpp, azimuth) ==
    [tectonic_region_type |-> trt, mag |-> mag,
     get_min_distance |-> rrup, get_rx_distance |-> rx,
     get_ry0_distance |-> ry0, get_joyner_boore_distance |-> rjb,
     distance_to_mesh |-> rhypo, distance_to_mesh_no_depths |-> repi,
     get_cdppvalue |-> rcdpp, get_azimuth |-> azimuth]

Ruptures ==
    { Rupture("Active", 6, <<5, 112, 1001>>, <<-3, 100, 900>>,
              <<0, 50, 800>>, <<0, 111, 1000>>, <<12, 113, 1002>>,
              <<7, 112, 1000>>, <<1, 2, 3>>, <<90, 180, 270>>),
      Rupture("Stable", 9, <<400, 401, 222>>, <<300, 200, 100>>,
              <<0, 0, 0>>, <<399, 400, 221>>, <<410, 411, 230>>,
              <<400, 401, 222>>, <<1, 1, 1>>, <<10, 20, 30>>),
      Rupture("Stable", 4, <<5001, 5002, 5003>>, <<5000, 5000, 5000>>,
              <<5000, 5000, 5000>>, <<5000, 5001, 5002>>,
              <<5010, 5011, 5012>>, <<5001, 5002, 5003>>,
              <<5000, 5000, 5000>>, <<5000, 5000, 5000>>) }

\* the values of a per-site array at the sites of the mesh
AtMesh(array, col) == [i \in 1..Len(col.sids) |-> array[col.sids[i] + 1]]

\* get_distances(rupture, mesh, param), mesh being the mesh of the sites col
get_distances(rupture, col, param) ==
    IF param = "rrup" THEN Ok(AtMesh(rupture.get_min_distance, col))
    ELSE IF param = "rx" THEN Ok(AtMesh(rupture.get_rx_distance, col))
    ELSE IF param = "ry0" THEN Ok(AtMesh(rupture.get_ry0_distance, col))
    ELSE IF param = "rjb"
    THEN Ok(AtMesh(rupture.get_joyner_boore_distance, col))
    ELSE IF param = "rhypo" THEN Ok(AtMesh(rupture.distance_to_mesh, col))
    ELSE IF param = "repi"
    THEN Ok(AtMesh(rupture.distance_to_mesh_no_depths, col))
    ELSE IF param = "rcdpp" THEN Ok(AtMesh(rupture.get_cdppvalue, col))
    ELSE IF param = "azimuth" THEN Ok(AtMesh(rupture.get_azimuth, col))
    ELSE Raise(Error("ValueError", <<"Unknown distance measure ", param>>))

\* array[mask]: the entries of the array at the positions in keep
Masked(array, keep) ==
    LET idx == SortedSeq(keep)
    IN  [j \in 1..Len(idx) |-> array[idx[j]]]

\* sites.filter(mask) for a mask given as the set of positions it selects
FilterByMask(col, keep) == FilterSites(col, {col.sids[i] : i \in keep})

\* the pair (sites, distances) returned by get_closest
Closest(col, distances) == [sites |-> col, distances |-> distances]

\* a get_closest that looks the threshold up even when the table is empty
get_closestNoShortcut(self, c, p3, col, rupture, distance_type) ==
    LET distances == get_distances(rupture, col, distance_type)
        maxdist   == call(self, c, p3, rupture.tectonic_region_type,
                          Mag(rupture.mag))
        mask      == {i \in 1..Len(distances.val) :
                        RatLeq(Rat(distances.val[i], 1), maxdist.res.val)}
    IN  IF distances.raised THEN [res |-> distances, cache |-> c]
        ELSE IF maxdist.res.raised THEN maxdist
        ELSE IF mask # {}
        THEN [res |-> Ok(Closest(FilterByMask(col, mask),
                                 Masked(distances.val, mask))),
              cache |-> maxdist.cache]
        ELSE [res |-> Raise(Error("FarAwayRupture", <<>>)),
              cache |-> maxdist.cache]

\* IntegrationDistance.get_closest(sites, rupture, distance_type): the
\* result and the new c
get_closest(self, c, p3, col, rupture, distance_type) ==
    LET distances == get_distances(rupture, col, distance_type)
        maxdist   == call(self, c, p3, rupture.tectonic_region_type,
                          Mag(rupture.mag))
        mask      == {i \in 1..Len(distances.val) :
                        RatLeq(Rat(distances.val[i], 1), maxdist.res.val)}
    IN  IF distances.raised THEN [res |-> distances, cache |-> c]
        ELSE IF DistLen(self) = 0
        THEN [res |-> Ok(Closest(col, distances.val)), cache |-> c]
        ELSE IF maxdist.res.raised THEN maxdist
        ELSE IF mask # {}
        THEN [res |-> Ok(Closest(FilterByMask(col, mask),
                                 Masked(distances.val, mask))),
              cache |-> maxdist.cache]
        ELSE [res |-> Raise(Error("FarAwayRupture", <<>>)),
              cache |-> maxdist.cache]

\* a filter that measures the distance to the rupture surface
filter_sites_by_distance_to_ruptureRrup(rupture, integration_distance, col) ==
    LET jb_dist == AtMesh(rupture.get_min_distance, col)
    IN  FilterByMask(col, {i \in 1..Len(jb_dist) :
                             jb_dist[i] <= integration_distance})

\* filter_sites_by_distance_to_rupture(rupture, integration_distance, sites)
filter_sites_by_distance_to_rupture(rupture, integration_distance, col) ==
    LET jb_dist == AtMesh(rupture.get_joyner_boore_distance, col)
    IN  FilterByMask(col, {i \in 1..Len(jb_dist) :
                             jb_dist[i] <= integration_distance})

\* What get_close_sites makes of the outcome o of the loop body: res is what
\* the call returns or raises (lines 322-324), nsites what the loop body
\* wrote on the source (Unset: nothing)
CloseSitesOf(o) ==
    [res    |-> IF o.kind = "raise" THEN Raise(o.err)
                ELSE IF o.kind = "yield" THEN Ok(o.sites)
                ELSE Ok(None),
     nsites |-> o.nsites]

\* SourceFilter.get_close_sites(source) for the source with index s:
\* list(self([source])) runs the loop body once, with sites = self.sitecol
get_close_sites(self, s) ==
    CloseSitesOf(ProcessSource(self, Sources[s], LocalSites(self, None)))

-----------------------------------------------------------------------------
(* Direct calls on an IntegrationDistance instance and on the engine that
   holds it *)

\* The distance dictionaries of the direct calls: those of the filter and
\* tables whose "default" entry is a list of pairs
DistDicts ==
    Dicts \cup
    { [trt \in {"default"} |->
         ListValue(<< <<8, 400>>, <<5, 100>>, <<6, 100>> >>)],
      [trt \in {"Active", "default"} |->
         IF trt = "Active" THEN ListValue(<< <<5, 111>>, <<7, 222>> >>)
         ELSE ListValue(<< <<7, 300>>, <<5, 50>> >>)],
      [trt \in {"Active"} |-> ListValue(<< <<7, 100>>, <<5, 300>> >>)] }

\* the region types looked up
RegionTypes == {"Active", "Stable", "default"}

\* the magnitudes looked up: omitted, below, on, inside and above the
\* magnitudes of the tables
MagArgs == {None} \cup {Mag(m) : m \in {4, 5, 6, 9}}

\* the site collections given with a rupture
RuptureSites == {SiteCollection(1), FilteredSiteCollection(<<1, 2>>, 1)}

\* the distance_type arguments given to get_closest
DistanceTypes == {"rrup", "rjb", "rvolc"}

\* the integration_distance arguments given to
\* filter_sites_by_distance_to_rupture
RuptureDistances == {5, 111}

\* the sources given to get_close_sites: A, B and the failing E
CloseSources == {1, 2, 5}

InitDist ==
    /\ rtree \in BOOLEAN
    /\ py3 \in BOOLEAN
    /\ \E dic \in DistDicts : maxdist_obj = IntegrationDistance(dic)
    /\ sf = SourceFilter(SiteCollection(1), maxdist_obj, TRUE, rtree)
    /\ sender = sf
    /\ transmitted = FALSE
    /\ sources = <<>>
    /\ sites = None
    /\ pc = "idle"
    /\ pos = 0
    /\ out = <<>>
    /\ nsites = [s \in SourceIds |-> Unset]
    /\ err = NoError
    /\ log = <<>>
    /\ calls = <<>>
    /\ cache = NoCache
    /\ last = NoCall
    /\ other = NoGenerator

\* integration_distance(trt, mag), called by a client
LookupCall ==
    /\ pc = "idle"
    /\ \E trt \in RegionTypes, mag \in MagArgs :
          LET r == call(maxdist_obj, cache, py3, trt, mag)
          IN  /\ last' = [op |-> "call", trt |-> trt, mag |-> mag,
                          res |-> r.res]
              /\ cache' = r.cache
    /\ UNCHANGED <<other, rtree, sf, sender, transmitted, genvars, py3,
                   maxdist_obj>>

\* integration_distance[trt], called by a client
GetItemCall ==
    /\ pc = "idle"
    /\ \E trt \in RegionTypes :
          last' = [op |-> "getitem", trt |-> trt,
                   res |-> getitem(maxdist_obj, trt)]
    /\ UNCHANGED <<other, rtree, sf, sender, transmitted, genvars, py3,
                   maxdist_obj, cache>>

\* integration_distance.get(trt), called by a client
MappingGetCall ==
    /\ pc = "idle"
    /\ \E trt \in RegionTypes :
          last' = [op |-> "get", trt |-> trt,
                   res |-> Mapping_get(maxdist_obj, trt)]
    /\ UNCHANGED <<other, rtree, sf, sender, transmitted, genvars, py3,
                   maxdist_obj, cache>>

\* integration_distance.get_closest(sites, rupture, distance_type), called
\* by a client
GetClosestCall ==
    /\ pc = "idle"
    /\ \E rupture \in Ruptures, col \in RuptureSites,
          distance_type \in DistanceTypes :
          LET r == get_closest(maxdist_obj, cache, py3, col, rupture,
                               distance_type)
          IN  /\ last' = [op |-> "get_closest", rupture |-> rupture,
                          sites |-> col, distance_type |-> distance_type,
                          res |-> r.res]
              /\ cache' = r.cache
    /\ UNCHANGED <<other, rtree, sf, sender, transmitted, genvars, py3,
                   maxdist_obj>>

\* filter_sites_by_distance_to_rupture(rupture, integration_distance, sites),
\* called by a client
FilterByRuptureCall ==
    /\ pc = "idle"
    /\ \E rupture \in Ruptures, d \in RuptureDistances,
          col \in RuptureSites :
          last' = [op |-> "filter_sites_by_distance_to_rupture",
                   rupture |-> rupture, integration_distance |-> d,
                   sites |-> col,
                   res |-> Ok(filter_sites_by_distance_to_rupture(
                                  rupture, d, col))]
    /\ UNCHANGED <<other, rtree, sf, sender, transmitted, genvars, py3,
                   maxdist_obj, cache>>

\* The effect of a get_close_sites call on source s that came out as r
\* (line 338 or 348 wrote the source's nsites, or nothing did)
CloseSitesStep(s, r) ==
    /\ last' = [op |-> "get_close_sites", src |-> Sources[s], res |-> r.res]
    /\ nsites' = IF r.nsites = Unset THEN nsites
                 ELSE [nsites EXCEPT ![s] = r.nsites]

\* self.get_close_sites(source), called by a client for one of the given
\* sources
GetCloseSitesOf(ids) ==
    /\ \E s \in ids : CloseSitesStep(s, get_close_sites(sf, s))
    /\ UNCHANGED <<other,
                   rtree, sf, sender, transmitted, sources, sites, pc, pos,
                   out, err, log, calls, py3, maxdist_obj, cache>>

CallGetCloseSites == pc = "idle" /\ GetCloseSitesOf(CloseSources)

NextDist ==
    \/ LookupCall
    \/ GetItemCall
    \/ MappingGetCall
    \/ GetClosestCall
    \/ FilterByRuptureCall
    \/ CallGetAffectedBox
    \/ CallGetCloseSites

SpecDist == InitDist /\ [][NextDist]_vars

-----------------------------------------------------------------------------
(* C14 *)

\* C14: for a table with a "default" entry, a lookup (with or without a
\* magnitude) for a region type that is not a key returns a value, the one
\* the "default" entry gives for the same magnitude, whatever lookups were
\* made before it.
C14_FallsBackToDefault ==
    (/\ last.op = "call"
     /\ "default" \in DOMAIN maxdist_obj.dic
     /\ last.trt \notin DOMAIN maxdist_obj.dic) =>
        /\ ~last.res.raised
        /\ last.res = call(maxdist_obj, NoCache, py3, "default",
                           last.mag).res

-----------------------------------------------------------------------------
(* C15 *)

\* the table resolves neither the region type nor "default"
Missing(trt) ==
    /\ trt \notin DOMAIN maxdist_obj.dic
    /\ "default" \notin DOMAIN maxdist_obj.dic

\* the error raised by getdefault
DefaultKeyError == Raise(Error("KeyError", <<"'default'">>))

\* the distance measures known to get_distances
Metrics == {"rrup", "rx", "ry0", "rjb", "rhypo", "repi", "rcdpp", "azimuth"}

\* the last direct call is one of __call__, __getitem__, get_closest,
\* get_affected_box or the filter (through get_close_sites) and it looked up
\* a region type that the table does not resolve
LookupOfMissing ==
    \/ last.op \in {"call", "getitem"} /\ Missing(last.trt)
    \/ /\ last.op = "get_closest"
       /\ DistLen(maxdist_obj) # 0
       /\ last.distance_type \in Metrics
       /\ Missing(last.rupture.tectonic_region_type)
    \/ /\ last.op = "get_affected_box"
       /\ Missing(last.src.tectonic_region_type)
    \/ /\ last.op = "get_close_sites"
       /\ DistLen(maxdist_obj) # 0
       /\ Missing(last.src.tectonic_region_type)

-----------------------------------------------------------------------------
(* C16 *)

\* the entry of the table that answers for the region type
Entry(trt) ==
    IF trt \in DOMAIN maxdist_obj.dic THEN maxdist_obj.dic[trt]
    ELSE maxdist_obj.dic["default"]

\* the table resolves the region type
Resolves(trt) ==
    trt \in DOMAIN maxdist_obj.dic \/ "default" \in DOMAIN maxdist_obj.dic

\* the instance holds the entries of the dictionary d it was built from
BuiltFrom(d) ==
    /\ DOMAIN maxdist_obj.dic = DOMAIN d
    /\ \A trt \in DOMAIN d :
          IF d[trt].kind = "list"
          THEN /\ maxdist_obj.dic[trt].kind = "list"
               /\ Len(maxdist_obj.dic[trt].pairs) = Len(d[trt].pairs)
               /\ Range(maxdist_obj.dic[trt].pairs) = Range(d[trt].pairs)
          ELSE /\ maxdist_obj.dic[trt].kind = "float"
               /\ maxdist_obj.dic[trt].v = d[trt].v

\* the distance the list pairs with its largest magnitude
DistanceOfLargestMagnitude(pairs) ==
    LET top == Max({pairs[i][1] : i \in 1..Len(pairs)})
    IN  Max({pairs[i][2] : i \in {j \in 1..Len(pairs) : pairs[j][1] = top}})

\* C16: after construction every list-valued entry holds the pairs supplied,
\* sorted by magnitude ascending whatever the order supplied; a lookup with
\* the magnitude omitted on such an entry returns the distance paired with
\* the largest stored magnitude; a lookup on a scalar entry returns that
\* scalar whatever magnitude is given.
C16_SortedEnvelopeScalar ==
    /\ \E d \in DistDicts : BuiltFrom(d)
    /\ \A trt \in DOMAIN maxdist_obj.dic :
          LET pairs == maxdist_obj.dic[trt].pairs
          IN  \A i, j \in 1..Len(pairs) : i < j => pairs[i][1] <= pairs[j][1]
    /\ (/\ last.op = "call"
        /\ Resolves(last.trt)
        /\ Entry(last.trt).kind = "list"
        /\ last.mag.kind = "None") =>
           last.res =
              Ok(Rat(DistanceOfLargestMagnitude(Entry(last.trt).pairs), 1))
    /\ (/\ last.op = "getitem"
        /\ Resolves(last.trt)
        /\ Entry(last.trt).kind = "list") =>
           last.res = Ok(DistanceOfLargestMagnitude(Entry(last.trt).pairs))
    /\ (/\ last.op = "call"
        /\ Resolves(last.trt)
        /\ Entry(last.trt).kind = "float") =>
           last.res = Ok(Rat(Entry(last.trt).v, 1))

\* a table supplied as [(8, 400), (5, 100), (6, 100)] was looked up with
\* the magnitude omitted and answered 400
C16_Witness ==
    /\ DOMAIN maxdist_obj.dic = {"default"}
    /\ maxdist_obj.dic["default"].pairs =
          << <<5, 100>>, <<6, 100>>, <<8, 400>> >>
    /\ last.op = "call"
    /\ last.trt = "Stable"
    /\ last.mag.kind = "None"
    /\ last.res = Ok(Rat(400, 1))

-----------------------------------------------------------------------------
(* C17 *)

\* the last direct call is a lookup with a magnitude that returned, on a
\* list-valued entry whose distances do not decrease with the magnitude
MonotoneLookup ==
    /\ last.op = "call"
    /\ last.mag.kind = "float"
    /\ ~last.res.raised
    /\ Resolves(last.trt)
    /\ Entry(last.trt).kind = "list"
    /\ LET pairs == Entry(last.trt).pairs
       IN  \A i, j \in 1..Len(pairs) : i < j => pairs[i][2] <= pairs[j][2]

\* the value at magnitude m of the line through the pairs p and q
LineThrough(p, q, m) ==
    Rat(p[2] * (q[1] - p[1]) + (q[2] - p[2]) * (m - p[1]), q[1] - p[1])

\* C17: for a list-valued entry whose distances are non-decreasing in the
\* magnitude, the lookup with a magnitude is non-decreasing in the
\* magnitude over all magnitudes: whatever magnitude the instance is asked
\* next for the same region type, a smaller one gives no more and a larger
\* one no less.  Below the smallest and above the largest stored magnitude
\* the value is the linear extrapolation of the nearest segment, not the
\* distance of the nearest pair.
C17_MonotoneExtrapolated ==
    MonotoneLookup =>
        LET pairs == Entry(last.trt).pairs
            n     == Len(pairs)
            m     == last.mag.v
            v     == last.res.val
        IN  /\ \A m2 \in 0..12 :
                  LET r == call(maxdist_obj, cache, py3, last.trt,
                                Mag(m2)).res
                  IN  /\ ~r.raised
                      /\ m2 <= m => RatLeq(r.val, v)
                      /\ m2 >= m => RatLeq(v, r.val)
            /\ m < pairs[1][1] => v = LineThrough(pairs[1], pairs[2], m)
            /\ m > pairs[n][1] => v = LineThrough(pairs[n - 1], pairs[n], m)

\* the table [(5, 100), (6, 100), (8, 400)] was looked up at magnitude 9,
\* above its largest magnitude, and answered 550
C17_Witness ==
    /\ MonotoneLookup
    /\ Entry(last.trt).pairs = << <<5, 100>>, <<6, 100>>, <<8, 400>> >>
    /\ last.mag.v = 9
    /\ last.res.val = Rat(550, 1)

-----------------------------------------------------------------------------
(* C18 *)

\* the last direct call is get_closest with a known distance measure, and
\* the given table resolves the region type of the rupture
ClosestCall(nonempty) ==
    /\ last.op = "get_closest"
    /\ (DistLen(maxdist_obj) # 0) = nonempty
    /\ last.distance_type \in Metrics
    /\ nonempty => Resolves(last.rupture.tectonic_region_type)

\* what get_distances computes for the sites of the last get_closest call
ComputedDistances ==
    get_distances(last.rupture, last.sites, last.distance_type).val

\* the threshold of the table for the rupture of the last get_closest call
Threshold ==
    call(maxdist_obj, NoCache, py3, last.rupture.tectonic_region_type,
         Mag(last.rupture.mag)).res.val

\* the positions of the sites within the threshold
Within ==
    {i \in 1..Len(ComputedDistances) :
        RatLeq(Rat(ComputedDistances[i], 1), Threshold)}

\* C18: with a non-empty table, get_closest(sites, rupture, metric) either
\* returns exactly the sites whose distance is <= the threshold for the
\* rupture's region type and magnitude, in their order and with their
\* distances in the same order, when there is at least one, or raises
\* FarAwayRupture when there is none; it never returns an empty selection.
C18_ClosestOrFarAway ==
    ClosestCall(TRUE) =>
        IF Within = {}
        THEN last.res = Raise(Error("FarAwayRupture", <<>>))
        ELSE /\ ~last.res.raised
             /\ last.res.val.sites.kind = "sites"
             /\ last.res.val.sites.complete = last.sites.complete
             /\ LET sids  == last.res.val.sites.sids
                    dists == last.res.val.distances
                IN  /\ Range(sids) = {last.sites.sids[i] : i \in Within}
                    /\ Len(sids) = Cardinality(Within)
                    /\ Len(dists) = Len(sids)
                    /\ Ascending(sids)
                    /\ \A j \in 1..Len(sids) :
                          \E i \in Within :
                             /\ last.sites.sids[i] = sids[j]
                             /\ ComputedDistances[i] = dists[j]

-----------------------------------------------------------------------------
(* C19 *)

\* C19: with an empty table get_closest returns the input site collection
\* itself and the full array of computed distances, for any rupture and any
\* non-empty site collection, whatever the distances; it never raises
\* FarAwayRupture.
C19_EmptyTableReturnsAll ==
    /\ ClosestCall(FALSE) =>
          last.res = Ok(Closest(last.sites, ComputedDistances))
    /\ (last.op = "get_closest" /\ DistLen(maxdist_obj) = 0) =>
          last.res.err.etype # "FarAwayRupture"

\* a rupture 5000 km or more away from every site was given to an empty
\* table, which returned the sites and the distances
C19_Witness ==
    /\ ClosestCall(FALSE)
    /\ \A i \in 1..Len(ComputedDistances) : ComputedDistances[i] >= 5000
    /\ ~last.res.raised
    /\ last.res.val.sites = last.sites
    /\ Len(last.res.val.distances) = Len(last.sites.sids)

-----------------------------------------------------------------------------
(* C20 *)

\* the ids of the sites of the last filter_sites_by_distance_to_rupture call
\* whose Joyner-Boore distance to the rupture is at most the distance given
WithinJoynerBoore ==
    {s \in SidSet(last.sites) :
        last.rupture.get_joyner_boore_distance[s + 1]
            <= last.integration_distance}

\* C20: filter_sites_by_distance_to_rupture(rupture, d, sites) keeps exactly
\* the sites whose Joyner-Boore distance to the rupture is <= d, a site at
\* exactly d included; no other distance measure and no magnitude enter;
\* when no site qualifies it returns no sites and raises nothing.
C20_JoynerBooreFilter ==
    last.op = "filter_sites_by_distance_to_rupture" =>
        /\ ~last.res.raised
        /\ IF WithinJoynerBoore = {} THEN last.res.val = None
           ELSE /\ last.res.val.kind = "sites"
                /\ last.res.val.complete = last.sites.complete
                /\ SidSet(last.res.val) = WithinJoynerBoore
                /\ Len(last.res.val.sids) = Cardinality(WithinJoynerBoore)
                /\ Ascending(last.res.val.sids)

\* d = 111 km and a rupture whose Joyner-Boore distances are 0, 111 and 1000
\* km while its rupture distances are 5, 112 and 1001 km: the sites 0 and 1
\* are kept
C20_Witness ==
    /\ last.op = "filter_sites_by_distance_to_rupture"
    /\ last.integration_distance = 111
    /\ last.rupture.get_joyner_boore_distance = <<0, 111, 1000>>
    /\ last.rupture.get_min_distance = <<5, 112, 1001>>
    /\ last.sites = SiteCollection(1)
    /\ last.res.val.kind = "sites"
    /\ last.res.val.sids = <<0, 1>>

-----------------------------------------------------------------------------
(* C21 *)

\* C21: every subset built on the index path has as its complete reference
\* the original unfiltered collection, sites.complete, also when the caller
\* passed an already filtered collection as sites; it never refers to a
\* filtered view.
C21_CompleteIsOriginal ==
    IndexPath =>
        \A j \in 1..Len(out) :
            /\ out[j].sites.kind = "sites"
            /\ out[j].sites.complete = lsites.complete
            /\ out[j].sites.complete \in 1..Len(Complete)

\* the caller passed a filtered view and a pair was delivered on the index
\* path, whose subset refers to the complete collection of the view
C21_Witness ==
    /\ IndexPath
    /\ sites.kind = "sites"
    /\ sites # SiteCollection(sites.complete)
    /\ Len(out) >= 1
    /\ out[1].sites.complete = sites.complete

-----------------------------------------------------------------------------
(* C22 *)

\* The steps of Iterate, told by the only thing they always change: one more
\* source is drawn from the input
Draw ==
    /\ Active
    /\ pos < Len(sources)
    /\ pos' = Advance(pos, Len(sources))

\* The generator with a consumer that keeps asking for the next pair until
\* the generator ends: an iteration that can be run is run, and the end of
\* the input is noticed
SpecLive == Spec /\ WF_pos(Draw) /\ WF_vars(Exhaust)

\* C22: for a finite sequence of sources the iteration terminates: it
\* delivers at most one pair per input source and then ends, or ends at the
\* first error; once it has ended nothing more is delivered and it does not
\* start again.
C22_Terminates ==
    /\ [](/\ pos <= Len(sources)
          /\ Len(out) <= pos
          /\ \A k \in 1..Len(log) : Cardinality(PairsOf(k)) <= 1
          /\ \A k \in 1..Len(log) :
                log[k] = "raise" => (k = Len(log) /\ pc = "raised")
          /\ pc = "done" => pos = Len(sources))
    /\ (Active ~> Finished)
    /\ [][Finished => UNCHANGED <<pc, pos, out, log, err, nsites>>]_vars

\* the generator has ended after two sources of which one was skipped
C22_Witness ==
    /\ pc = "done"
    /\ Len(sources) = 2
    /\ Len(out) = 1
    /\ log = <<"yield", "skip">>

-----------------------------------------------------------------------------
(* Construction of engines by a client *)

\* The module after its import: source_site_noop_filter is the only engine
InitNew ==
    /\ rtree \in BOOLEAN
    /\ py3 \in BOOLEAN
    /\ sf = SourceFilter(None, Dict(EmptyDict), TRUE, rtree)
    /\ sender = sf
    /\ transmitted = FALSE
    /\ sources = <<>>
    /\ sites = None
    /\ pc = "idle"
    /\ pos = 0
    /\ out = <<>>
    /\ nsites = [s \in SourceIds |-> Unset]
    /\ err = NoError
    /\ log = <<>>
    /\ calls = <<>>
    /\ maxdist_obj = sf.integration_distance
    /\ cache = NoCache
    /\ last = NoCall
    /\ other = NoGenerator

\* The integration_distance arguments of the constructor: a dictionary, or
\* an IntegrationDistance built from one
DistanceArgs ==
    {Dict(dic) : dic \in DistDicts} \cup
    {IntegrationDistance(dic) : dic \in DistDicts}

\* SourceFilter(sitecol, integration_distance, use_rtree), called by a
\* client: sf is the new engine from now on
Construct ==
    /\ pc = "idle"
    /\ \E sitecol \in SiteCols, integration_distance \in DistanceArgs,
          use_rtree \in BOOLEAN :
          /\ sf' = SourceFilter(sitecol, integration_distance, use_rtree,
                                rtree)
          /\ last' = [op |-> "init", sitecol |-> sitecol,
                      integration_distance |-> integration_distance,
                      use_rtree |-> use_rtree]
    /\ sender' = sf'
    /\ transmitted' = FALSE
    /\ maxdist_obj' = sf'.integration_distance
    /\ cache' = NoCache
    /\ UNCHANGED <<other, rtree, genvars, py3>>

NextNew == Construct \/ Transmit

SpecNew == InitNew /\ [][NextNew]_vars

-----------------------------------------------------------------------------
(* C23 *)

\* the five conditions of the last construction: the use_rtree argument is
\* true, the rtree module is available, the distance table is not empty,
\* the site collection is not None and all its sites are at sea level
IndexConditions ==
    /\ last.use_rtree
    /\ rtree
    /\ IF last.integration_distance.kind = "dict"
       THEN DOMAIN last.integration_distance.items # {}
       ELSE DOMAIN last.integration_distance.dic # {}
    /\ last.sitecol.kind # "None"
    /\ \A s \in SidSet(last.sitecol) : SiteOf(last.sitecol, s).depth = 0

\* C23: the engine uses the index (use_rtree true and an index holding one
\* point entry per site id) exactly when the use_rtree argument is true, the
\* index backend is available, the distance table is non-empty, the site
\* collection is not None and all sites are at sea level; in every other
\* case no index is built.
C23_IndexExactlyWhen ==
    (last.op = "init" /\ ~transmitted) =>
        /\ sf.use_rtree <=> IndexConditions
        /\ sf.has_index <=> IndexConditions
        /\ IndexConditions =>
              /\ {e.sid : e \in sf.index} = SidSet(last.sitecol)
              /\ Cardinality(sf.index) = Len(last.sitecol.sids)
              /\ \A e \in sf.index :
                    /\ e.lat = SiteOf(last.sitecol, e.sid).lat
                    /\ e.lon \in {SiteOf(last.sitecol, e.sid).lon,
                                  SiteOf(last.sitecol, e.sid).lon + 360}
        /\ ~IndexConditions => sf.index = {}

\* an engine was built on three sites at sea level with all conditions met:
\* its index holds three entries
C23_Witness ==
    /\ last.op = "init"
    /\ ~transmitted
    /\ IndexConditions
    /\ sf.use_rtree
    /\ Cardinality(sf.index) = 3

-----------------------------------------------------------------------------
(* C24: clients mixing the four reading methods on one instance *)

\* The sources of the mixed clients
FrameSources == {1, 2}

\* Source lists of the mixed clients: one source, or two in a row
FrameLists == {<<1>>, <<1, 2>>}

\* The sites arguments of the mixed clients: omitted, or the view that keeps
\* only the last site of the instance's collection
FrameSitesArgs(self) ==
    {None,
     IF self.sitecol.kind = "None" THEN FilteredSiteCollection(<<2>>, 1)
     ELSE FilteredSiteCollection(
              <<self.sitecol.sids[Len(self.sitecol.sids)]>>,
              self.sitecol.complete)}

FrameCall == CallWith(FrameLists, FrameSitesArgs(sf))

FrameGetAffectedBox == GetAffectedBoxOf({Sources[s] : s \in FrameSources})

FrameGetRectangle == GetRectangleOf({Sources[s] : s \in FrameSources})

FrameGetCloseSites == GetCloseSitesOf(FrameSources)

\* The instances of Init; no magnitude lookup is made by these clients, so
\* one build is enough
InitFrame == Init /\ py3

\* A client that creates one iteration and calls get_affected_box,
\* get_rectangle and get_close_sites before, between and after its steps
NextFrame ==
    \/ FrameCall
    \/ Iterate
    \/ Exhaust
    \/ FrameGetAffectedBox
    \/ FrameGetRectangle
    \/ FrameGetCloseSites

SpecFrame == InitFrame /\ [][NextFrame]_vars

\* Source s is yielded by the step: by the iteration, or inside
\* get_close_sites
YieldedByStep(s) ==
    \/ /\ pos' = pos + 1
       /\ sources[pos + 1] = s
       /\ log'[Len(log')] = "yield"
    \/ /\ pos' = pos
       /\ last'.op = "get_close_sites"
       /\ last'.src = Sources[s]
       /\ last'.res = Ok(last'.res.val)
       /\ last'.res.val.kind = "sites"

\* C24: across any sequence of filter, get_affected_box, get_rectangle and
\* get_close_sites calls on one instance, the instance (site collection,
\* index, use_rtree flag, distance table) and the distance object are
\* unchanged; the nsites of a source changes only in a step that yields that
\* source, so a skipped source keeps the value it had
C24_OnlyNsitesOfYielded ==
    [][/\ sf' = sf
       /\ sf'.sitecol = sf.sitecol
       /\ sf'.index = sf.index
       /\ sf'.use_rtree = sf.use_rtree
       /\ sf'.integration_distance = sf.integration_distance
       /\ maxdist_obj' = maxdist_obj
       /\ cache' = cache
       /\ \A s \in SourceIds :
             nsites'[s] # nsites[s] => YieldedByStep(s)]_vars

\* a source counted by get_close_sites was later skipped by an iteration over
\* a filtered view, after a get_rectangle call, and kept its count
C24_Witness ==
    /\ Len(log) >= 1
    /\ log[Len(log)] = "skip"
    /\ nsites[sources[Len(log)]] # Unset
    /\ last.op = "get_rectangle"
    /\ sites.kind = "sites"

-----------------------------------------------------------------------------
(* C25: a source list split into two parts, each filtered by its own
   iteration of the instance *)

\* The sources that are split: one that is near the sites, one of another
\* region type, and one whose geometric procedures raise
SplitSources == {1, 2, 5}

\* The lists that are split: every ordering of distinct sources
SplitLists ==
    {l \in SeqsUpTo(SplitSources, Cardinality(SplitSources)) :
        \A i, j \in 1..Len(l) : i # j => l[i] # l[j]}

\* The part of a list at the positions I, in the order of the list
PartAt(l, I) ==
    [j \in 1..Cardinality(I) |-> l[SortedSeq(I)[j]]]

\* self(part1, sites) and self(part2, sites): two generators are created,
\* one for each part of a list
SplitCall ==
    /\ pc = "idle"
    /\ other.pc = "idle"
    /\ \E whole \in SplitLists, sites_arg \in SitesArgs(sf) :
          \E I \in SUBSET (1..Len(whole)) :
             /\ sources' = PartAt(whole, I)
             /\ sites' = sites_arg
             /\ other' = [NoGenerator EXCEPT
                            !.pc = "created",
                            !.whole = whole,
                            !.sources = PartAt(whole, (1..Len(whole)) \ I)]
    /\ pc' = "created"
    /\ UNCHANGED <<rtree, sf, sender, transmitted, pos, out, nsites, err,
                   log, calls, distvars>>

\* A step of the second generator that continues after an error
ResumeOtherPastError(s, o) ==
    /\ other' = [other EXCEPT
                   !.pos = other.pos + 1,
                   !.out = IF o.kind = "yield"
                           THEN Append(other.out,
                                       [src |-> s, sites |-> o.sites,
                                        nsites |-> o.nsites,
                                        idx |-> other.pos + 1])
                           ELSE other.out,
                   !.err = o.err,
                   !.pc = IF o.kind = "yield" THEN "yielded" ELSE "running"]
    /\ nsites' = IF o.nsites = Unset THEN nsites
                 ELSE [nsites EXCEPT ![s] = o.nsites]

\* The second generator runs its loop body on its next source s, with
\* outcome o (lines 329-349)
ResumeOther(s, o) ==
    /\ nsites' = IF o.nsites = Unset THEN nsites
                 ELSE [nsites EXCEPT ![s] = o.nsites]
    /\ other' = [other EXCEPT
                   !.pos = Advance(other.pos, Len(other.sources)),
                   !.out = IF o.kind = "yield"
                           THEN Append(other.out,
                                       [src |-> s, sites |-> o.sites,
                                        nsites |-> nsites'[s],
                                        idx |-> other.pos + 1])
                           ELSE other.out,
                   !.err = o.err,
                   !.pc = IF o.kind = "yield" THEN "yielded"
                          ELSE IF o.kind = "skip" THEN "running"
                          ELSE "raised"]

OtherActive == other.pc \in {"created", "yielded", "running"}

\* One loop iteration of the second generator
IterateOther ==
    /\ OtherActive
    /\ other.pos < Len(other.sources)
    /\ ResumeOther(other.sources[other.pos + 1],
                   ProcessSource(sf, Sources[other.sources[other.pos + 1]],
                                 LocalSites(sf, sites)))
    /\ UNCHANGED <<rtree, sf, sender, transmitted, sources, sites, pc, pos,
                   out, err, log, calls, distvars>>

\* The input of the second generator is exhausted: it returns
ExhaustOther ==
    /\ OtherActive
    /\ other.pos = Len(other.sources)
    /\ other' = [other EXCEPT !.pc = "done"]
    /\ UNCHANGED <<rtree, sf, sender, transmitted, genvars, distvars>>

NextSplit ==
    \/ Transmit
    \/ SplitCall
    \/ Iterate
    \/ Exhaust
    \/ IterateOther
    \/ ExhaustOther

SpecSplit == InitFrame /\ [][NextSplit]_vars

\* the results delivered in o, as a set of (source, subset, nsites)
Results(o) ==
    {[src |-> o[j].src, sites |-> o[j].sites, nsites |-> o[j].nsites] :
        j \in 1..Len(o)}

\* the results of one generator of the instance filtering srcs alone
Alone(srcs) ==
    LET pairs == ListCall(sf, srcs, sites).pairs
    IN  {[src |-> pairs[j].src, sites |-> pairs[j].sites,
          nsites |-> ProcessSource(sf, Sources[pairs[j].src], lsites).nsites] :
            j \in 1..Len(pairs)}

BothFinished ==
    /\ other.whole # <<>>
    /\ Finished
    /\ other.pc \in {"done", "raised"}

\* each part's output is what the part gives alone
PartsAsAlone ==
    /\ Results(out) = Alone(sources)
    /\ Pairs = ListCall(sf, sources, sites).pairs
    /\ err = ListCall(sf, sources, sites).err
    /\ Results(other.out) = Alone(other.sources)
    /\ other.err = ListCall(sf, other.sources, sites).err

\* C25 as stated: whatever the interleaving, each part's output is what the
\* part gives alone, and the outputs of the parts together are, as a set of
\* (source, subset, nsites), the output of one generator filtering the whole
\* list
C25_PartsMakeWholeOutput ==
    BothFinished =>
        /\ PartsAsAlone
        /\ Results(out) \cup Results(other.out) = Alone(other.whole)

\* C25: whatever the interleaving, each part's output is what the part gives
\* alone; the output of one generator filtering the whole list is contained
\* in the outputs of the parts together, and is equal to them when no part
\* ends with an error (the whole list stops at its first error, each part at
\* its own)
C25_PartsCoverWholeOutput ==
    BothFinished =>
        /\ PartsAsAlone
        /\ Alone(other.whole) \subseteq Results(out) \cup Results(other.out)
        /\ (pc = "done" /\ other.pc = "done") =>
              Results(out) \cup Results(other.out) = Alone(other.whole)

\* a part ended with the error of its first source while the other part,
\* later in the list, delivered a pair
C25_Witness ==
    /\ BothFinished
    /\ pc = "raised"
    /\ other.pc = "done"
    /\ Len(sources) >= 1
    /\ other.whole[1] = sources[1]
    /\ Len(other.out) >= 1

-----------------------------------------------------------------------------
(* C26 *)

\* C26: the site ids of every yielded subset are among those of the
\* collection the caller passed as sites (of the instance's own collection
\* when sites is omitted)
C26_YieldedWithinSupplied ==
    \A j \in 1..Len(out) :
        out[j].sites.kind = "sites" =>
            /\ lsites.kind = "sites"
            /\ SidSet(out[j].sites) \subseteq SidSet(lsites)

-----------------------------------------------------------------------------
(* C27 and C28 *)

\* the angular span in longitude of a box given by its western and eastern
\* edge
AngularSpan(b) ==
    IF b.min_lon <= b.max_lon THEN b.max_lon - b.min_lon
    ELSE b.max_lon + 360 - b.min_lon

\* C27: with the date-line correction active, the box returned by
\* get_affected_box has its first longitude <= its third longitude and the
\* longitude span of the source's box; a box crossing the antimeridian
\* (min_lon > 0 > max_lon) is not returned inverted
C27_BoxWellFormed ==
    (/\ BoxCall("get_affected_box")
     /\ IdlActive
     /\ ~last.res.raised
     /\ last.res.val.kind = "box") =>
        /\ last.res.val.min_lon <= last.res.val.max_lon
        /\ last.res.val.max_lon - last.res.val.min_lon =
              AngularSpan(EnlargedBox)

\* C28: with the date-line correction active, get_affected_box returns four
\* coordinates for every source box, also for one whose min_lon or max_lon
\* is exactly 0, and get_rectangle gets a box to unpack
C28_CaseSplitExhaustive ==
    /\ (BoxCall("get_affected_box") /\ IdlActive) =>
          /\ ~last.res.raised
          /\ last.res.val.kind = "box"
    /\ (BoxCall("get_rectangle") /\ IdlActive) => ~last.res.raised

-----------------------------------------------------------------------------
(* C29 *)

\* the pair out[j] holds at least one site and was counted as such
NonEmptyPair(j) ==
    /\ out[j].sites.kind = "sites"
    /\ Len(out[j].sites.sids) >= 1
    /\ out[j].nsites >= 1

-----------------------------------------------------------------------------
(* C30 *)

\* C30: the lazily built interpolation cache is transparent: the lookup just
\* made returned what the same lookup returns on the object as constructed,
\* whatever lookups were made before it, and repeating it returns the same
\* again
C30_CacheTransparent ==
    last.op = "call" =>
        /\ last.res = call(maxdist_obj, NoCache, py3, last.trt, last.mag).res
        /\ ~last.res.raised =>
              call(maxdist_obj, cache, py3, last.trt, last.mag).res = last.res

=============================================================================
